---- MODULE Spec2Model ----
(***************************************************************************)
(* Model of program.py: the three sample generators, the RandomnessTester  *)
(* test suite and the RandomnessApp dispatch of tests to worker threads.   *)
(*                                                                         *)
(* Four specifications share the variables:                                *)
(*   SpecGen   one call of a generator on bounded (N, size);               *)
(*   SpecCore  one RandomnessTester and its six test methods;              *)
(*   SpecRuns  randomness_test alone, on longer samples;                   *)
(*   Spec      RandomnessApp: button clicks, run_test, execute_test.       *)
(* Rationals are records [num, den]; reals drawn from the normal law are   *)
(* counted in halves (h stands for h/2) so that rounding ties occur.       *)
(***************************************************************************)
EXTENDS Integers, Sequences, FiniteSets, TLC

VARIABLES
    gen,        \* SpecGen: the generator call: arguments, locals, return value
    tester,     \* the RandomnessTester (SpecCore) / RandomnessApp.tester (Spec)
    result,     \* SpecCore: what the last test method computed
    buttons,    \* Spec: state of the seven ttk.Buttons, self.buttons
    threads,    \* Spec: the worker threads run_test started
    nruns,      \* Spec: number of RandomnessTester objects constructed so far
    destroyed,  \* Spec: the Tk window has been destroyed
    main        \* Spec: where the main thread is: in mainloop, in run_test
                \* with what it read, or in the modal messagebox.showerror

vars == <<gen, tester, result, buttons, threads, nruns, destroyed, main>>

None == "None"

\* ---- bounds of the model
MaxN == 3
MaxSize == 2
HalfOver == 3
MaxDuration == 1
MaxRuns == 2
MaxRunN == 4
MaxRunLen == 4

\* maxlags of ax.acorr(self.samples, maxlags=10)
maxlags == 10

RandFuncs == {"c_style_rand", "uniform_rand", "normal_rand"}

\* ------------------------------------------------------------------------
\* helpers on sequences

RECURSIVE SumSeq(_)
SumSeq(s) == IF Len(s) = 0 THEN 0 ELSE s[1] + SumSeq(Tail(s))

Count(s, v) == Cardinality({i \in 1..Len(s) : s[i] = v})

Min2(a, b) == IF a < b THEN a ELSE b
Max2(a, b) == IF a < b THEN b ELSE a

\* ------------------------------------------------------------------------
\* the generators: each operator is the set of values a call can return

\* [random.randint(0, N - 1) for _ in range(size)]
c_style_rand(N, size) == [1..size -> 0..(N - 1)]

\* np.random.randint(0, N, size=size): high is exclusive
uniform_rand(N, size) == [1..size -> {v \in 0..N : v < N}]

\* np.random.normal(mean, std): a real, here in halves. mean = (N-1)/2 is
\* the half count N-1; std = (N-1)/6 is 0 for N = 1, and then the draw is
\* exactly the mean.
NormalDraws(N) ==
    IF N - 1 = 0 THEN {N - 1}
    ELSE (0 - HalfOver)..(2 * (N - 1) + HalfOver)

\* np.round of h/2: to the nearest integer, ties to the even one
Round(h) ==
    IF h % 2 = 0 THEN h \div 2
    ELSE LET lo == (h - 1) \div 2
         IN  IF lo % 2 = 0 THEN lo ELSE lo + 1

\* np.clip(x, lo, hi)
Clip(x, lo, hi) == Min2(Max2(x, lo), hi)

\* the mutant: the upper clip bound is N instead of N - 1
normal_value_clip_N(h, N) == Clip(Round(h), 0, N)

\* np.clip(np.round(values), 0, N - 1).astype(int), on one element
normal_value(h, N) == Clip(Round(h), 0, N - 1)

normal_clip(raw, N) == [i \in 1..Len(raw) |-> normal_value(raw[i], N)]

\* round and clip act on each element by itself
normal_rand(N, size) == [1..size -> {normal_value(h, N) : h \in NormalDraws(N)}]

rand_func_call(f, N, size) ==
    CASE f = "c_style_rand" -> c_style_rand(N, size)
      [] f = "uniform_rand" -> uniform_rand(N, size)
      [] f = "normal_rand"  -> normal_rand(N, size)

\* ------------------------------------------------------------------------
\* SpecGen: one generator call on arguments N > 0, size > 0

NoGen == [func |-> None, N |-> 0, size |-> 0, raw |-> <<>>, values |-> <<>>]
NoResult == [op |-> None]
NoThreads == <<>>
Mainloop == [pc |-> "mainloop"]

\* self.tester = None
NoTester == [id |-> 0]

\* the seven buttons as create_widgets leaves them
NewButtons == [k \in 1..7 |-> "normal"]

GenIdle ==
    /\ tester = NoTester /\ result = NoResult /\ buttons = NewButtons
    /\ threads = NoThreads /\ nruns = 0 /\ destroyed = FALSE /\ main = Mainloop

InitGen ==
    /\ \E N \in 1..MaxN, size \in 1..MaxSize :
          gen = [func |-> None, N |-> N, size |-> size, raw |-> <<>>, values |-> <<>>]
    /\ GenIdle

call_c_style_rand ==
    /\ gen.func = None
    /\ \E v \in c_style_rand(gen.N, gen.size) :
          gen' = [gen EXCEPT !.func = "c_style_rand", !.values = v]
    /\ UNCHANGED <<tester, result, buttons, threads, nruns, destroyed, main>>

call_uniform_rand ==
    /\ gen.func = None
    /\ \E v \in uniform_rand(gen.N, gen.size) :
          gen' = [gen EXCEPT !.func = "uniform_rand", !.values = v]
    /\ UNCHANGED <<tester, result, buttons, threads, nruns, destroyed, main>>

\* the local `values` before the clip is kept in gen.raw
call_normal_rand ==
    /\ gen.func = None
    /\ \E raw \in [1..gen.size -> NormalDraws(gen.N)] :
          gen' = [gen EXCEPT !.func = "normal_rand", !.raw = raw,
                             !.values = normal_clip(raw, gen.N)]
    /\ UNCHANGED <<tester, result, buttons, threads, nruns, destroyed, main>>

NextGen == call_c_style_rand \/ call_uniform_rand \/ call_normal_rand

SpecGen == InitGen /\ [][NextGen]_vars

\* C1: every generator call with N > 0 and size > 0 returns exactly `size`
\* integers, each in [0, N); normal_rand never returns a value outside
\* [0, N-1], and for N = 1 every returned value is 0.
C1_GeneratorsInRange ==
    gen.func # None =>
        /\ Len(gen.values) = gen.size
        /\ \A i \in 1..Len(gen.values) :
              /\ gen.values[i] \in Int
              /\ 0 <= gen.values[i] /\ gen.values[i] < gen.N
              /\ gen.N = 1 => gen.values[i] = 0

\* normal_rand returned after draws that round below 0 and above N-1
C1_Witness ==
    /\ gen.func = "normal_rand" /\ gen.N >= 2 /\ gen.size >= 2
    /\ \E i, j \in 1..Len(gen.raw) :
          /\ Round(gen.raw[i]) < 0 /\ gen.values[i] = 0
          /\ Round(gen.raw[j]) > gen.N - 1 /\ gen.values[j] = gen.N - 1

\* ------------------------------------------------------------------------
\* RandomnessTester

\* __init__: samples is what rand_func(N, sample_size) returned; id is the
\* identity of the object
RandomnessTester(id, rand_func, N, sample_size, samples) ==
    [id |-> id, rand_func |-> rand_func, N |-> N,
     sample_size |-> sample_size, samples |-> samples]

RECURSIVE SortedSeq(_)
SortedSeq(S) ==
    IF S = {} THEN <<>>
    ELSE LET m == CHOOSE x \in S : \A y \in S : x <= y
         IN  <<m>> \o SortedSeq(S \ {m})

\* np.diff
Diff(s) == [i \in 1..(Len(s) - 1) |-> s[i + 1] - s[i]]

\* np.sign
Sign(x) == IF x > 0 THEN 1 ELSE IF x < 0 THEN 0 - 1 ELSE 0

RECURSIVE Concat(_)
Concat(ss) == IF Len(ss) = 0 THEN <<>> ELSE ss[1] \o Concat(Tail(ss))

\* {k: freq.get(k, 0) for k in range(self.N)}
Freq(samples, N) == [k \in 0..(N - 1) |-> Count(samples, k)]

\* the keys of `positions`, in insertion order: the values in the order of
\* their first occurrence
PositionKeys(samples) ==
    LET first == {i \in 1..Len(samples) : \A j \in 1..(i - 1) : samples[j] # samples[i]}
        order == SortedSeq(first)
    IN  [n \in 1..Len(order) |-> samples[order[n]]]

\* positions[val]: the indices (from 0) at which val occurs, ascending
Positions(samples, val) == SortedSeq({i - 1 : i \in {j \in 1..Len(samples) : samples[j] = val}})

\* np.concatenate([np.diff(np.array(pos)) for pos in positions.values()])
Intervals(samples) ==
    LET keys == PositionKeys(samples)
    IN  Concat([n \in 1..Len(keys) |-> Diff(Positions(samples, keys[n]))])

distribution_test(self) ==
    [self |-> self,
     result |-> [op |-> "distribution_test", outcome |-> "ok",
                 freq |-> Freq(self.samples, self.N),
                 intervals |-> Intervals(self.samples)]]

\* sums of powers of the deviations n*x - sum(x): n^3*m2, n^4*m3, n^5*m4
DevPow(samples, p) ==
    LET n == Len(samples)
        d == [i \in 1..n |-> n * samples[i] - SumSeq(samples)]
    IN  SumSeq([i \in 1..n |-> d[i] ^ p])

correctness_test(self) ==
    LET n  == Len(self.samples)
        M2 == DevPow(self.samples, 2)
        M3 == DevPow(self.samples, 3)
        M4 == DevPow(self.samples, 4)
    IN  [self |-> self,
         result |-> [op |-> "correctness_test", outcome |-> "ok",
                     mean |-> [num |-> SumSeq(self.samples), den |-> n],
                     var  |-> [num |-> M2, den |-> n * n * n],
                     skew |-> IF M2 = 0 THEN "nan"
                              ELSE [sign |-> Sign(M3),
                                    square |-> [num |-> n * M3 * M3, den |-> M2 * M2 * M2]],
                     kurtosis |-> IF M2 = 0 THEN "nan"
                                  ELSE [num |-> n * M4 - 3 * M2 * M2, den |-> M2 * M2]]]

\* the mutant: counts the values 1..N-1 only
Observed_from_1(samples, N) == [i \in 1..(N - 1) |-> Count(samples, i)]

\* np.array([Counter(self.samples).get(i, 0) for i in range(self.N)])
Observed(samples, N) == [i \in 1..N |-> Count(samples, i - 1)]

\* np.full(self.N, len(self.samples) / self.N)
Expected(samples, N) == [i \in 1..N |-> [num |-> Len(samples), den |-> N]]

\* sum((o - e)^2 / e) with e = L/N: sum((o*N - L)^2) / (N*L)
ChiSquare(observed, expected) ==
    LET n == Len(observed)
    IN  [num |-> SumSeq([i \in 1..n |->
                    (observed[i] * expected[i].den - expected[i].num) ^ 2]),
         den |-> IF n = 0 THEN 0 ELSE expected[1].den * expected[1].num]

\* the KS statistic compares with a fresh random uniform sample and is only
\* formatted into the text; it is left out of the result
distribution_check(self) ==
    LET observed == Observed(self.samples, self.N)
        expected == Expected(self.samples, self.N)
    IN  [self |-> self,
         result |-> [op |-> "distribution_check", outcome |-> "ok",
                     observed |-> observed, expected |-> expected,
                     chi2 |-> ChiSquare(observed, expected)]]

\* np.corrcoef(x, y)[0, 1]: nan when a variance is 0 (also for len <= 1),
\* else num / sqrt(den2)
Corrcoef(x, y) ==
    LET m   == Len(x)
        sx  == SumSeq(x)
        sy  == SumSeq(y)
        sxy == SumSeq([i \in 1..m |-> x[i] * y[i]])
        dx  == m * SumSeq([i \in 1..m |-> x[i] * x[i]]) - sx * sx
        dy  == m * SumSeq([i \in 1..m |-> y[i] * y[i]]) - sy * sy
    IN  IF dx * dy = 0 THEN "nan"
        ELSE [num |-> m * sxy - sx * sy, den2 |-> dx * dy]

\* the mutant: counts the sign changes without adding 1
Runs_no_plus_1(samples) ==
    LET delta == Diff(samples)
        sgn   == [i \in 1..Len(delta) |-> Sign(delta[i])]
    IN  Cardinality({i \in 1..Len(Diff(sgn)) : Diff(sgn)[i] # 0})

\* np.sum(np.diff(np.sign(np.diff(samples_array))) != 0) + 1
Runs(samples) ==
    LET delta == Diff(samples)
        sgn   == [i \in 1..Len(delta) |-> Sign(delta[i])]
        trend_changes == [i \in 1..Len(Diff(sgn)) |-> Diff(sgn)[i] # 0]
    IN  Cardinality({i \in 1..Len(trend_changes) : trend_changes[i]}) + 1

\* ax.acorr(x, maxlags=maxlags) raises ValueError unless 1 <= maxlags < len(x)
Acorr(samples) ==
    IF maxlags >= Len(samples) \/ maxlags < 1 THEN "ValueError" ELSE "ok"

\* acf and runs are the locals of lines 88 and 99; the text is returned only
\* when line 105 does not raise
randomness_test(self) ==
    LET n == Len(self.samples)
        acf == Corrcoef(SubSeq(self.samples, 1, n - 1), SubSeq(self.samples, 2, n))
    IN  [self |-> self,
         result |-> [op |-> "randomness_test", outcome |-> Acorr(self.samples),
                     acf |-> acf, runs |-> Runs(self.samples)]]

\* the durations time.time() - start_time can give, in microseconds
Durations == 0..MaxDuration

\* int(self.sample_size / duration)
Throughput(sample_size, duration) ==
    IF duration = 0 THEN "ZeroDivisionError"
    ELSE (sample_size * 1000000) \div duration

\* test_samples.nbytes for an array; for a list the sum of the elements'
\* __sizeof__(), which CPython gives per integer (0 may be smaller than the
\* others), so it is kept as the two counts
MemUsage(rand_func, test_samples, sample_size) ==
    LET head == SubSeq(test_samples, 1, Min2(sample_size, Len(test_samples)))
    IN  IF rand_func = "c_style_rand"
        THEN [of |-> "sizeof", zeros |-> Count(head, 0),
              others |-> Len(head) - Count(head, 0)]
        ELSE [of |-> "nbytes", items |-> Len(test_samples)]

PerformanceResult(self, test_samples, duration) ==
    [op |-> "performance_test",
     outcome |-> IF duration = 0 THEN "ZeroDivisionError" ELSE "ok",
     duration |-> duration,
     mem_usage |-> MemUsage(self.rand_func, test_samples, self.sample_size),
     speed |-> Throughput(self.sample_size, duration)]

\* the mutant: the fresh array replaces the held one
performance_test_keeps_new(self, test_samples, duration) ==
    [self |-> [self EXCEPT !.samples = test_samples],
     result |-> PerformanceResult(self, test_samples, duration)]

\* test_samples is what self.rand_func(self.N, self.sample_size) returned
\* and duration what the two time.time() calls measured
performance_test(self, test_samples, duration) ==
    [self |-> self,
     result |-> PerformanceResult(self, test_samples, duration)]

\* the probabilities > 0, over range(N); the entropy is -sum(p * log2(p))
entropy_test(self) ==
    LET freq == Freq(self.samples, self.N)
        kept == SortedSeq({i \in 0..(self.N - 1) : freq[i] > 0})
    IN  [self |-> self,
         result |-> [op |-> "entropy_test", outcome |-> "ok",
                     probabilities |-> [n \in 1..Len(kept) |->
                         [num |-> freq[kept[n]], den |-> Len(self.samples)]],
                     max_entropy_of |-> self.N]]

\* ------------------------------------------------------------------------
\* SpecCore: one RandomnessTester, its test methods called in any order

\* the (N, sample_size) of the testers: the small ones, and one long enough
\* for ax.acorr
Configs ==
    {c \in [N : 1..MaxN, sample_size : 1..MaxSize] : TRUE}
        \cup {[N |-> 1, sample_size |-> maxlags + 1]}

CoreIdle ==
    /\ gen = NoGen /\ buttons = NewButtons /\ threads = NoThreads
    /\ nruns = 0 /\ destroyed = FALSE /\ main = Mainloop

\* the state after RandomnessTester(f, N, sample_size), for (N, sample_size)
\* in configs
Constructed(configs) ==
    /\ \E c \in configs, f \in RandFuncs :
          \E samples \in rand_func_call(f, c.N, c.sample_size) :
             tester = RandomnessTester(1, f, c.N, c.sample_size, samples)
    /\ result = NoResult
    /\ CoreIdle

InitCore == Constructed(Configs)

Returns(r) ==
    /\ tester' = r.self
    /\ result' = r.result
    /\ UNCHANGED <<gen, buttons, threads, nruns, destroyed, main>>

call_distribution_test == Returns(distribution_test(tester))

call_correctness_test == Returns(correctness_test(tester))

call_distribution_check == Returns(distribution_check(tester))

call_randomness_test == Returns(randomness_test(tester))

call_performance_test ==
    \E test_samples \in rand_func_call(tester.rand_func, tester.N, tester.sample_size),
       duration \in Durations :
          Returns(performance_test(tester, test_samples, duration))

call_entropy_test == Returns(entropy_test(tester))

NextCore ==
    \/ call_distribution_test
    \/ call_correctness_test
    \/ call_distribution_check
    \/ call_randomness_test
    \/ call_performance_test
    \/ call_entropy_test

SpecCore == InitCore /\ [][NextCore]_vars

\* C5: after distribution_check the observed array has exactly N entries
\* (zero for absent values) that sum to sample_size = len(samples), and the
\* expected array has N entries, each equal to sample_size / N.
C5_FrequencyArrays ==
    result.op = "distribution_check" =>
        /\ Len(result.observed) = tester.N
        /\ \A i \in 1..Len(result.observed) :
              result.observed[i] = Cardinality({j \in 1..Len(tester.samples) :
                                                   tester.samples[j] = i - 1})
        /\ SumSeq(result.observed) = tester.sample_size
        /\ SumSeq(result.observed) = Len(tester.samples)
        /\ Len(result.expected) = tester.N
        /\ \A i \in 1..Len(result.expected) :
              /\ result.expected[i].den # 0
              /\ result.expected[i].num * tester.N
                    = tester.sample_size * result.expected[i].den

\* distribution_check ran on a sample that misses a value of range(N)
C5_Witness ==
    /\ result.op = "distribution_check"
    /\ tester.N >= 2
    /\ \E i \in 1..Len(result.observed) : result.observed[i] = 0
    /\ \E i \in 1..Len(result.observed) : result.observed[i] >= 2

\* C7: randomness_test on a sample of length <= 1 ends normally and reports
\* the lag-1 autocorrelation as undefined.
C7_ShortSampleDoesNotCrash ==
    (result.op = "randomness_test" /\ Len(tester.samples) <= 1) =>
        (result.outcome = "ok" /\ result.acf = "nan")

\* C8: performance_test never divides by a zero duration: for every measured
\* duration >= 0 it ends normally with an integer throughput.
C8_NoDivisionByZero ==
    result.op = "performance_test" =>
        (result.outcome = "ok" /\ result.speed \in Int)

\* C9: no test method changes the tester: samples, N, sample_size and
\* rand_func stay what the constructor set.
C9_TesterUnchanged == [][tester' = tester]_vars

\* performance_test ran on a list-backed tester and generated an array with
\* another number of zeros than the held sample has
C9_Witness ==
    /\ result.op = "performance_test"
    /\ tester.rand_func = "c_style_rand"
    /\ result.mem_usage.zeros # Count(tester.samples, 0)

\* ------------------------------------------------------------------------
\* SpecRuns: randomness_test on the samples of up to MaxRunLen values below
\* MaxRunN

InitRuns == Constructed([N : 1..MaxRunN, sample_size : 1..MaxRunLen])

NextRuns == call_randomness_test

SpecRuns == InitRuns /\ [][NextRuns]_vars

StrictlyIncreasing(s) == \A i \in 1..(Len(s) - 1) : s[i] < s[i + 1]

\* every step goes up or down, and each step reverses the one before
Alternating(s) ==
    /\ \A i \in 1..(Len(s) - 1) : s[i] # s[i + 1]
    /\ \A i \in 1..(Len(s) - 2) : (s[i] < s[i + 1]) # (s[i + 1] < s[i + 2])

\* C6: the run count of randomness_test is 1 for a strictly increasing
\* sample of length k >= 1 and k - 1 for an alternating sample of length
\* k >= 2.
C6_RunCount ==
    result.op = "randomness_test" =>
        /\ (Len(tester.samples) >= 1 /\ StrictlyIncreasing(tester.samples))
              => result.runs = 1
        /\ (Len(tester.samples) >= 2 /\ Alternating(tester.samples))
              => result.runs = Len(tester.samples) - 1

\* randomness_test ran on an alternating sample of at least four values
C6_Witness ==
    /\ result.op = "randomness_test"
    /\ Len(tester.samples) >= 4
    /\ Alternating(tester.samples)
    /\ result.runs = Len(tester.samples) - 1

\* randomness_test ran on a strictly increasing sample of at least three values
C6_WitnessIncreasing ==
    /\ result.op = "randomness_test"
    /\ Len(tester.samples) >= 3
    /\ StrictlyIncreasing(tester.samples)
    /\ result.runs = 1

\* ------------------------------------------------------------------------
\* RandomnessApp

\* int(text): surrounding blanks stripped, an optional sign, then decimal
\* digits that single underscores may separate; anything else is ValueError
DigitChars == <<"0", "1", "2", "3", "4", "5", "6", "7", "8", "9">>

IsDigit(c) == \E i \in 1..Len(DigitChars) : DigitChars[i] = c

DigitValue(c) == (CHOOSE i \in 1..Len(DigitChars) : DigitChars[i] = c) - 1

RECURSIVE LStrip(_)
LStrip(text) ==
    IF Len(text) > 0 /\ text[1] = " " THEN LStrip(Tail(text)) ELSE text

RECURSIVE RStrip(_)
RStrip(text) ==
    IF Len(text) > 0 /\ text[Len(text)] = " "
    THEN RStrip(SubSeq(text, 1, Len(text) - 1))
    ELSE text

WellFormedDigits(d) ==
    /\ Len(d) > 0
    /\ \A i \in 1..Len(d) :
          \/ IsDigit(d[i])
          \/ /\ d[i] = "_" /\ 1 < i /\ i < Len(d)
             /\ IsDigit(d[i - 1]) /\ IsDigit(d[i + 1])

RECURSIVE DigitsValue(_, _)
DigitsValue(d, acc) ==
    IF Len(d) = 0 THEN acc
    ELSE IF d[1] = "_" THEN DigitsValue(Tail(d), acc)
    ELSE DigitsValue(Tail(d), 10 * acc + DigitValue(d[1]))

ParseInt(text) ==
    LET body   == RStrip(LStrip(text))
        signed == Len(body) > 0 /\ body[1] \in {"+", "-"}
        digits == IF signed THEN Tail(body) ELSE body
    IN  IF ~WellFormedDigits(digits)
        THEN [ok |-> FALSE,
              error |-> [message |-> "invalid literal for int()", literal |-> text]]
        ELSE [ok |-> TRUE,
              value |-> IF signed /\ body[1] = "-"
                        THEN 0 - DigitsValue(digits, 0)
                        ELSE DigitsValue(digits, 0)]

\* what the user can have typed into n_entry and sample_entry
EntryTexts ==
    { <<" ", "1">>, <<"0">>, <<"-", "1">>, <<"a", "b", "c">>, <<>> }

\* the mutant: only negative values are rejected
Validate_negative_only(n_text, s_text) ==
    LET N == ParseInt(n_text)
        sample_size == ParseInt(s_text)
    IN  IF ~N.ok THEN [ok |-> FALSE, error |-> N.error]
        ELSE IF ~sample_size.ok THEN [ok |-> FALSE, error |-> sample_size.error]
        ELSE IF N.value < 0 \/ sample_size.value < 0
             THEN [ok |-> FALSE, error |-> [message |-> "must be > 0"]]
        ELSE [ok |-> TRUE, N |-> N.value, sample_size |-> sample_size.value]

\* the try block of run_test: the two int() calls in order, then the check
\* that both are > 0 (its ValueError is written "must be > 0" here); error
\* is the ValueError caught
Validate(n_text, s_text) ==
    LET N == ParseInt(n_text)
        sample_size == ParseInt(s_text)
    IN  IF ~N.ok THEN [ok |-> FALSE, error |-> N.error]
        ELSE IF ~sample_size.ok THEN [ok |-> FALSE, error |-> sample_size.error]
        ELSE IF N.value <= 0 \/ sample_size.value <= 0
             THEN [ok |-> FALSE, error |-> [message |-> "must be > 0"]]
        ELSE [ok |-> TRUE, N |-> N.value, sample_size |-> sample_size.value]

rand_func_map == [c \in 1..3 |->
    CASE c = 1 -> "c_style_rand" [] c = 2 -> "uniform_rand" [] c = 3 -> "normal_rand"]

Thread(test_num) == [pc |-> "start", test_num |-> test_num, used |-> 0, outcome |-> None]

\* a thread that has ended, by leaving execute_test ("done") or with the
\* interpreter ("killed"); how its test ended stays known
Ended(th, pc) == [th EXCEPT !.pc = pc, !.used = 0]

\* a click on button test_num: mainloop calls run_test(test_num), which
\* will read the entries as they are now. A disabled button, a destroyed
\* window and a window under the modal messagebox take no click.
click(test_num, n_text, s_text) ==
    /\ main = Mainloop
    /\ ~destroyed
    /\ buttons[test_num] = "normal"
    /\ main' = [pc |-> "run_test", test_num |-> test_num, n_entry |-> n_text,
                sample_entry |-> s_text]
    /\ UNCHANGED <<gen, tester, result, buttons, threads, nruns, destroyed>>

\* run_test on the main thread, from the int() calls to showerror or to
\* Thread.start(); the radio choice is read after the validation
run_test ==
    /\ main.pc = "run_test"
    /\ LET v == Validate(main.n_entry, main.sample_entry)
       IN  IF ~v.ok
           THEN /\ main' = [pc |-> "showerror", error |-> v.error]
                /\ UNCHANGED <<tester, threads, nruns>>
           ELSE /\ \E rand_choice \in 1..3 :
                      \E samples \in rand_func_call(rand_func_map[rand_choice],
                                                    v.N, v.sample_size) :
                         tester' = RandomnessTester(nruns + 1, rand_func_map[rand_choice],
                                                    v.N, v.sample_size, samples)
                /\ nruns' = nruns + 1
                /\ threads' = Append(threads, Thread(main.test_num))
                /\ main' = Mainloop
    /\ UNCHANGED <<gen, result, buttons, destroyed>>

\* the user closes the messagebox; showerror returns and run_test returns
close_dialog ==
    /\ main.pc = "showerror"
    /\ main' = Mainloop
    /\ UNCHANGED <<gen, tester, result, buttons, threads, nruns, destroyed>>

\* a worker's calls into Tk are served by the main thread between its own
\* handlers, and self.tester is written once, at the end of run_test: the
\* workers take their steps while the main thread is not inside run_test
MainServes == main.pc # "run_test"

\* execute_test up to the try: the button is disabled. On a destroyed
\* window the config call raises TclError and the thread ends there.
execute_test_disable(t) ==
    /\ MainServes
    /\ threads[t].pc = "start"
    /\ IF destroyed
       THEN /\ threads' = [threads EXCEPT
                  ![t] = Ended([threads[t] EXCEPT !.outcome = "TclError"], "done")]
            /\ UNCHANGED buttons
       ELSE /\ threads' = [threads EXCEPT ![t].pc = "try"]
            /\ buttons' = [buttons EXCEPT ![threads[t].test_num] = "disabled"]
    /\ UNCHANGED <<gen, tester, result, nruns, destroyed, main>>

\* how the test method called on tester `me` ends, for the tests that take
\* no input but the tester
TestOutcome(test_num, me) ==
    CASE test_num = 1 -> distribution_test(me).result.outcome
      [] test_num = 2 -> correctness_test(me).result.outcome
      [] test_num = 3 -> distribution_check(me).result.outcome
      [] test_num = 4 -> randomness_test(me).result.outcome
      [] test_num = 6 -> entropy_test(me).result.outcome

\* the end of the try block after the test ended with `out`: a test that
\* returned is followed by writes to the widgets, which raise TclError on a
\* destroyed window
TryEnds(t, out) ==
    /\ threads' = [threads EXCEPT
          ![t].pc = "finally",
          ![t].used = tester.id,
          ![t].outcome = IF out = "ok" /\ destroyed THEN "TclError" ELSE out]
    /\ UNCHANGED <<gen, tester, result, buttons, nruns, destroyed, main>>

\* the try block for the tests 1, 2, 3, 4 and 6: run_*_test reads
\* self.tester as it is now and calls the test on it
execute_test_body(t) ==
    /\ MainServes
    /\ threads[t].pc = "try"
    /\ threads[t].test_num \in {1, 2, 3, 4, 6}
    /\ TryEnds(t, TestOutcome(threads[t].test_num, tester))

\* the try block for test 5: performance_test generates again and measures
execute_test_performance(t) ==
    /\ MainServes
    /\ threads[t].pc = "try"
    /\ threads[t].test_num = 5
    /\ \E test_samples \in rand_func_call(tester.rand_func, tester.N, tester.sample_size),
          duration \in Durations :
          TryEnds(t, performance_test(tester, test_samples, duration).result.outcome)

\* the try block for test 7: self.destroy() destroys the window with its
\* buttons and any messagebox, whose showerror then returns; on a destroyed
\* window it raises TclError
execute_test_destroy(t) ==
    /\ MainServes
    /\ threads[t].pc = "try"
    /\ threads[t].test_num = 7
    /\ IF destroyed
       THEN /\ threads' = [threads EXCEPT ![t].pc = "finally", ![t].outcome = "TclError"]
            /\ UNCHANGED <<buttons, destroyed, main>>
       ELSE /\ threads' = [threads EXCEPT ![t].pc = "finally", ![t].outcome = "ok"]
            /\ destroyed' = TRUE
            /\ buttons' = [k \in 1..7 |-> "destroyed"]
            /\ main' = Mainloop
    /\ UNCHANGED <<gen, tester, result, nruns>>

\* the mutant: no finally, the button is restored only after a test that
\* did not raise
execute_test_restore_on_success(t) ==
    /\ MainServes
    /\ threads[t].pc = "finally"
    /\ threads' = [threads EXCEPT ![t] = Ended(threads[t], "done")]
    /\ IF destroyed \/ threads[t].outcome # "ok"
       THEN UNCHANGED buttons
       ELSE buttons' = [buttons EXCEPT ![threads[t].test_num] = "normal"]
    /\ UNCHANGED <<gen, tester, result, nruns, destroyed, main>>

\* the finally block: the button is set back to normal, after a test that
\* returned and after one that raised; on a destroyed window the config
\* call raises TclError
execute_test_finally(t) ==
    /\ MainServes
    /\ threads[t].pc = "finally"
    /\ threads' = [threads EXCEPT ![t] = Ended(threads[t], "done")]
    /\ IF destroyed
       THEN UNCHANGED buttons
       ELSE buttons' = [buttons EXCEPT ![threads[t].test_num] = "normal"]
    /\ UNCHANGED <<gen, tester, result, nruns, destroyed, main>>

\* the window is destroyed, mainloop returns and the interpreter exits: a
\* daemon thread still running is stopped where it is
interpreter_exit(t) ==
    /\ destroyed
    /\ threads[t].pc \in {"start", "try", "finally"}
    /\ threads' = [threads EXCEPT ![t] = Ended(threads[t], "killed")]
    /\ UNCHANGED <<gen, tester, result, buttons, nruns, destroyed, main>>

\* RandomnessApp.__init__
Init ==
    /\ gen = NoGen
    /\ tester = NoTester
    /\ result = NoResult
    /\ buttons = NewButtons
    /\ threads = NoThreads
    /\ nruns = 0
    /\ destroyed = FALSE
    /\ main = Mainloop

\* the clicks of a user who types any of EntryTexts into the entries, until
\* MaxRuns tests have been dispatched
Clicks ==
    /\ nruns < MaxRuns
    /\ main = Mainloop
    /\ \E test_num \in 1..7, n_text \in EntryTexts, s_text \in EntryTexts :
          click(test_num, n_text, s_text)

Next ==
    \/ Clicks
    \/ run_test
    \/ close_dialog
    \/ \E t \in 1..Len(threads) : execute_test_disable(t)
    \/ \E t \in 1..Len(threads) : execute_test_body(t)
    \/ \E t \in 1..Len(threads) : execute_test_performance(t)
    \/ \E t \in 1..Len(threads) : execute_test_destroy(t)
    \/ \E t \in 1..Len(threads) : execute_test_finally(t)
    \/ \E t \in 1..Len(threads) : interpreter_exit(t)

Spec == Init /\ [][Next]_vars

Active(t) == threads[t].pc \in {"start", "try", "finally"}

\* between the disable of its button and the end of its finally block
Holding(t) == threads[t].pc \in {"try", "finally"}

\* C2: at most one test run is in progress at any time.
C2_OneRunAtATime ==
    Cardinality({t \in 1..Len(threads) : Active(t)}) <= 1

\* C3: every test run analyses the tester that the run_test call which
\* dispatched it constructed (thread t is dispatched with tester t).
C3_RunAnalysesItsOwnSample ==
    \A t \in 1..Len(threads) :
        (threads[t].pc = "finally" /\ threads[t].used # 0) => threads[t].used = t

InvalidInput(n_text, s_text) ==
    \/ ~ParseInt(n_text).ok
    \/ ~ParseInt(s_text).ok
    \/ ParseInt(n_text).value <= 0
    \/ ParseInt(s_text).value <= 0

\* C4: a run_test call whose N or sample_size is not integer-parseable or is
\* <= 0 shows the input error and changes nothing else: no tester is
\* constructed (no generator runs), no thread starts, the tester and the
\* buttons stay as they are; nor does anything of it happen before the
\* call returns from showerror.
C4_InvalidInputAborts ==
    [][/\ (main.pc = "run_test" /\ InvalidInput(main.n_entry, main.sample_entry)) =>
             /\ main'.pc = "showerror"
             /\ UNCHANGED <<tester, threads, nruns, buttons, destroyed>>
       /\ main.pc = "showerror" =>
             /\ UNCHANGED <<tester, nruns>>
             /\ Len(threads') = Len(threads)]_vars

\* the input error is shown for a sample_size of 0 while a worker still
\* holds a disabled button
C4_Witness ==
    /\ main.pc = "showerror"
    /\ main.error = [message |-> "must be > 0"]
    /\ tester # NoTester
    /\ \E t \in 1..Len(threads) : Holding(t) /\ buttons[threads[t].test_num] = "disabled"

\* C10 as stated: every execute_test that has ended has left its button in
\* state normal (unless another run of the same button still holds it).
C10_EveryRunRestoresItsButton ==
    \A t \in 1..Len(threads) :
        threads[t].pc = "done" =>
            \/ buttons[threads[t].test_num] = "normal"
            \/ \E u \in 1..Len(threads) :
                  u # t /\ Holding(u) /\ threads[u].test_num = threads[t].test_num

\* C10 as amended: while the window exists, a button is disabled only while
\* an execute_test for it is between its disable and the end of its finally
\* block, and every execute_test that has ended, by returning or by
\* raising, has left its button normal unless another run of that button
\* still holds it; so with no run left no button is disabled.
C10_RestoredWhileWindowExists ==
    ~destroyed =>
        /\ \A k \in 1..7 :
              buttons[k] = "disabled" =>
                  \E t \in 1..Len(threads) : Holding(t) /\ threads[t].test_num = k
        /\ \A t \in 1..Len(threads) :
              threads[t].pc = "done" =>
                  \/ buttons[threads[t].test_num] = "normal"
                  \/ \E u \in 1..Len(threads) :
                        u # t /\ Holding(u) /\ threads[u].test_num = threads[t].test_num
        /\ (\A t \in 1..Len(threads) : ~Holding(t)) =>
              \A k \in 1..7 : buttons[k] = "normal"

\* two runs have ended, one of them by raising, and both buttons are normal
C10_Witness ==
    /\ ~destroyed
    /\ Len(threads) >= 2
    /\ \A t \in 1..Len(threads) : threads[t].pc = "done"
    /\ \E t \in 1..Len(threads) : threads[t].outcome \notin {"ok", None}
    /\ \E t \in 1..Len(threads) : threads[t].outcome = "ok"
    /\ \A k \in 1..7 : buttons[k] = "normal"

====
